---------------------------- MODULE Spec2Model ----------------------------
(***************************************************************************)
(* A model of the Valheim stat tracker (src/app/main.py).                  *)
(*                                                                         *)
(*   SpecSkills : find_skills_block + decode_skills over byte buffers      *)
(*   SpecChest  : decode_chest_items over base64 inventory payloads        *)
(*   SpecAgg    : aggregate_chests over sequences of world objects         *)
(*   SpecLoop   : main_loop, the polling loop with its change detection    *)
(*                                                                         *)
(* Byte buffers are sequences of integers 0..255; the byte at Python       *)
(* offset p is data[p + 1].  32-bit values are kept as the signed value of *)
(* their bit pattern, so that every number fits a 32-bit integer.         *)
(***************************************************************************)
EXTENDS Integers, Sequences, FiniteSets, TLC

VARIABLES
    \* decode_skills / find_skills_block
    data,        \* the character file's bytes
    skpc,        \* "scan", "located", "decode", "done", "raised", or "idle"
    start,       \* the for-loop's next candidate start offset
    best_start,  \* None (NoneStart) or the best offset so far
    best_count,  \* the best run length so far
    pos,         \* decode_skills' read position
    skills,      \* decode_skills' dict: name -> rounded level (in hundredths)
    \* decode_chest_items
    items_src,   \* the item list the payload was encoded from (history)
    cut,         \* how many bytes were cut off the encoded payload (history)
    items_b64,   \* zdo["stringsByName"]["items"]: base64 text, or NoneText
    raw,         \* the decoded bytes
    cur,         \* the BytesIO cursor
    item_count,  \* the item_count word (count)
    idx,         \* how many loop iterations have completed
    results,     \* the list of item records
    last_read,   \* the locals of the last loop iteration
    chpc,        \* "call", "loop", "returned", "raised", or "idle"
    \* aggregate_chests
    zdos,        \* world_json_obj["zdoList"], each object with what the
                 \* model knows of it (is_chest, holds, broken: history)
    zi,          \* the for-loop's position in zdos
    totals,      \* the defaultdict(int): item name -> count
    agg_result,  \* what the call returned: NoTotals or <<"totals", dict>>
    calls,       \* how many calls of aggregate_chests have been made
    failed_before, \* some earlier call raised (history)
    aggpc,       \* "call", "loop", "returned", "raised", or "idle"
    \* main_loop
    role,        \* ROLE.lower()
    world,       \* the world save, as the text its export gives
    char_file,   \* the character file: exists, mtime, content
    last_hash,   \* NoneHash or the hash of a snapshot
    last_m_time, \* the remembered modification time
    raw_json,    \* raw: the text exported in this cycle
    cycle,       \* the number of the current cycle
    lpc,         \* "start", "compare", "player", "decode", "sleep",
                 \* "exited", or "idle"
    host_fail,   \* where the host part of this cycle failed (history)
    prev_fail,   \* where the host part of the last cycle failed (history)
    prev_world,  \* the world save during the last cycle (history)
    host_skipped,   \* this cycle took "No world change detected" (history)
    uploaded_raw,   \* the snapshots whose totals were uploaded (history)
    skill_fail,     \* the mtime whose decode or upload failed in the
                    \* last cycle that tried, or 0 (history)
    player_skipped, \* this cycle took "No new save yet" (history)
    skills_done     \* the mtimes whose skills were uploaded (history)

skillVars == <<data, skpc, start, best_start, best_count, pos, skills>>
chestVars == <<items_src, cut, items_b64, raw, cur, item_count, idx, results,
               last_read, chpc>>

aggVars == <<zdos, zi, totals, agg_result, calls, failed_before, aggpc>>

loopVars == <<role, world, char_file, last_hash, last_m_time, raw_json, cycle,
              lpc, host_fail, prev_fail, prev_world, host_skipped,
              uploaded_raw, skill_fail, player_skipped, skills_done>>

vars == <<skillVars, chestVars, aggVars, loopVars>>

---------------------------------------------------------------------------
(* Bounds of the model *)

\* how many chunks a generated character file is made of
MaxChunks == 3
\* junk bytes before and after a long run of records
MaxPad == 1
\* how far the long runs exceed the locator's cap
MaxOver == 1
\* how many item records an inventory payload is encoded from
MaxItems == 2
\* how many bytes at most are cut off the end of an encoded payload
MaxCut == 48
\* how many objects a world snapshot holds
MaxZdos == 2
\* how many times aggregate_chests is called in a row
MaxCalls == 2
\* how many cycles of main_loop are followed
MaxCycles == 3

---------------------------------------------------------------------------
(* Little-endian reads (struct.unpack "<i", "<f") *)

RECURSIVE Pow2(_)
Pow2(n) == IF n = 0 THEN 1 ELSE 2 * Pow2(n - 1)

MinInt32 == -2147483647 - 1

\* the signed 32-bit value of four little-endian bytes
I32(b0, b1, b2, b3) ==
    (b0 + 256 * b1 + 65536 * b2)
        + 16777216 * (IF b3 >= 128 THEN b3 - 256 ELSE b3)

\* struct.unpack_from("<i", buf, p): defined when p + 4 <= Len(buf)
ReadI32At(buf, p) == I32(buf[p + 1], buf[p + 2], buf[p + 3], buf[p + 4])

\* struct.unpack_from("<f", buf, p), as the float's bit pattern (signed)
ReadF32At(buf, p) == ReadI32At(buf, p)

\* 0.0 <= x for a float given by its bit pattern: the non-negative floats
\* have non-negative patterns, -0.0 (pattern 0x80000000) compares equal to
\* 0.0, every other pattern with the sign bit set is negative or a NaN
FloatGeZero(bits) == bits >= 0 \/ bits = MinInt32

\* x <= 1000.0 for a float with 0.0 <= x: among non-negative patterns the
\* float order is the integer order, 1000.0 is 0x447A0000, and the
\* infinities and NaNs lie above 0x7F7FFFFF
FloatLe1000(bits) == bits <= 1148846080

\* round(x, 2) of a float with 0.0 <= x <= 1000.0, in hundredths.  The float
\* is mant * 2^(e - 150); Python rounds the exact value correctly, an exact
\* tie to the even hundredth.
Round2(bits) ==
    IF bits <= 1000593162 THEN 0     \* x < 0.005 (0x3BA3D70A), and -0.0
    ELSE IF bits \div 8388608 < 120 THEN 1     \* 0.005 < x < 2^-7
    ELSE LET e    == bits \div 8388608
             mant == 8388608 + (bits % 8388608)
             den  == Pow2(150 - e)
             num  == mant * 100
             q    == num \div den
             r    == num % den
         IN  IF 2 * r > den THEN q + 1
             ELSE IF 2 * r = den THEN q + (q % 2)
             ELSE q

---------------------------------------------------------------------------
(* find_skills_block *)

NoneStart == -1
entry == 12
RunCap == 64

\* line 74: the plausibility test of one (id, level, accum) triple at p
ScanValid(buf, p) ==
    LET sid == ReadI32At(buf, p)
        lvl == ReadF32At(buf, p + 4)
    IN  0 < sid /\ sid < 200 /\ FloatGeZero(lvl) /\ FloatLe1000(lvl)

\* lines 71-78: the inner while loop, from position p with count so far
RECURSIVE RunFrom(_, _, _)
RunFrom(buf, p, count) ==
    IF p + entry <= Len(buf) /\ count < RunCap
    THEN IF ScanValid(buf, p) THEN RunFrom(buf, p + entry, count + 1)
         ELSE count
    ELSE count

\* line 68: range(0, len(data) - entry) still has the candidate s
ScanHasNext(buf, s) == s < Len(buf) - entry

\* lines 69-81: one iteration of the for loop, on the best pair so far
ScanStep(buf, s, best) ==
    LET count == RunFrom(buf, s, 0)
    IN  IF count > best[2] THEN <<s, count>> ELSE best

\* find_skills_block as a whole, for callers that run it in one step
RECURSIVE ScanLoop(_, _, _)
ScanLoop(buf, s, best) ==
    IF ScanHasNext(buf, s) THEN ScanLoop(buf, s + 1, ScanStep(buf, s, best))
    ELSE best

find_skills_block(buf) == ScanLoop(buf, 0, <<NoneStart, 0>>)

---------------------------------------------------------------------------
(* decode_skills *)

\* constants.SKILL_MAP: the static id -> name table
SKILL_MAP == [sid \in {1, 2, 3} |->
                 CASE sid = 1 -> <<"Swords", 0>>
                   [] sid = 2 -> <<"Knives", 0>>
                   [] sid = 3 -> <<"Clubs", 0>> ]

\* line 101: SKILL_MAP.get(sid, f"Skill_{sid}")
SkillName(sid) ==
    IF sid \in DOMAIN SKILL_MAP THEN SKILL_MAP[sid] ELSE <<"Skill_", sid>>

\* the decoder's test with the upper level bound made strict
DecodeValid_Strict(buf, p) ==
    LET sid == ReadI32At(buf, p)
        lvl == ReadF32At(buf, p + 4)
    IN  0 < sid /\ sid < 200 /\ FloatGeZero(lvl) /\ lvl < 1148846080

\* line 99: the decoder's own copy of the validity test
DecodeValid(buf, p) ==
    LET sid == ReadI32At(buf, p)
        lvl == ReadF32At(buf, p + 4)
    IN  0 < sid /\ sid < 200 /\ FloatGeZero(lvl) /\ FloatLe1000(lvl)

\* line 97-100: the while loop goes on at p
DecodeHasNext(buf, p) == p + entry <= Len(buf) /\ DecodeValid(buf, p)

\* line 102: skills[name] = round(lvl, 2)
DictSet(d, k, v) == [x \in DOMAIN d \cup {k} |-> IF x = k THEN v ELSE d[x]]

EmptyDict == [x \in {} |-> 0]

\* lines 98-103: one accepted record
DecodeStep(buf, p, d) ==
    DictSet(d, SkillName(ReadI32At(buf, p)), Round2(ReadF32At(buf, p + 4)))

\* decode_skills as a whole (lines 90-105), for callers that run it in one
\* step: <<"raised", {}>> or <<"ok", skills>>
RECURSIVE DecodeLoop(_, _, _)
DecodeLoop(buf, p, d) ==
    IF DecodeHasNext(buf, p) THEN DecodeLoop(buf, p + entry, DecodeStep(buf, p, d))
    ELSE d

decode_skills(buf) ==
    LET found == find_skills_block(buf)
    IN  IF found[1] = NoneStart \/ found[2] = 0 THEN <<"raised", EmptyDict>>
        ELSE <<"ok", DecodeLoop(buf, found[1], EmptyDict)>>

---------------------------------------------------------------------------
(* base64.b64decode (line 195), on text given as a sequence of the          *)
(* characters' alphabet indices 0..63, with 64 for the pad character '='   *)

B64Pad == 64

B64IsData(c) == c # B64Pad

\* the data characters among the first n characters of the text
B64Data(text, n) == SelectSeq(SubSeq(text, 1, n), B64IsData)

\* the pads that directly precede position i
B64PadsBefore(text, i) ==
    LET from == CHOOSE k \in 1..i :
                    /\ \A m \in k..(i - 1) : text[m] = B64Pad
                    /\ k = 1 \/ text[k - 1] # B64Pad
    IN  i - from

\* binascii.a2b_base64, not strict.  The characters are taken in order; a
\* data character fills the next place of the current quad; a pad is
\* skipped unless the quad holds at least two characters and the pads seen
\* since the last data character complete it, which ends the input.
\* Without such a pad, characters left in an unfinished quad are an error
\* ("Incorrect padding").  The k-th quad of data characters gives three
\* bytes, an ended quad of two or three characters one or two.
b64decode(text) ==
    LET stops == {i \in 1..Len(text) :
                     /\ text[i] = B64Pad
                     /\ Len(B64Data(text, i)) % 4 >= 2
                     /\ (Len(B64Data(text, i)) % 4) + B64PadsBefore(text, i) + 1 >= 4}
        stop  == IF stops = {} THEN Len(text) + 1
                 ELSE CHOOSE i \in stops : \A k \in stops : i <= k
        d     == B64Data(text, stop - 1)
        quad  == Len(d) % 4
        n     == 3 * (Len(d) \div 4) + (IF quad >= 2 THEN quad - 1 ELSE 0)
        byte(k) ==
            LET g == 4 * ((k - 1) \div 3)
            IN  CASE (k - 1) % 3 = 0 -> d[g + 1] * 4 + (d[g + 2] \div 16)
                  [] (k - 1) % 3 = 1 -> (d[g + 2] % 16) * 16 + (d[g + 3] \div 4)
                  [] (k - 1) % 3 = 2 -> (d[g + 3] % 4) * 64 + d[g + 4]
    IN  IF stops = {} /\ quad # 0 THEN <<"raised", <<>>>>
        ELSE <<"ok", [k \in 1..n |-> byte(k)]>>

---------------------------------------------------------------------------
(* The BytesIO reader (lines 175-188, 196) *)

Min(a, b) == IF a <= b THEN a ELSE b

\* buf.read(n) at cursor c: the next n bytes, fewer at the end of the
\* buffer; a negative n reads everything that is left
BufRead(buf, c, n) ==
    IF n < 0 THEN SubSeq(buf, c + 1, Len(buf))
    ELSE SubSeq(buf, c + 1, Min(c + n, Len(buf)))

\* struct.unpack of a fixed-width field accepts exactly n bytes
Avail(buf, c, n) == Len(BufRead(buf, c, n)) = n

\* read_u32: the values the model reads keep the top byte below 128
read_u32(buf, c) ==
    buf[c + 1] + 256 * buf[c + 2] + 65536 * buf[c + 3] + 16777216 * buf[c + 4]

read_i32(buf, c) == I32(buf[c + 1], buf[c + 2], buf[c + 3], buf[c + 4])

\* read_f32, as the float's bit pattern
read_f32(buf, c) == I32(buf[c + 1], buf[c + 2], buf[c + 3], buf[c + 4])

read_byte(buf, c) == buf[c + 1]

\* read_u64, as its low and high 32-bit words
read_u64(buf, c) == <<read_u32(buf, c), read_u32(buf, c + 4)>>

\* bytes.decode("utf-8", errors="replace"), to a sequence of code points:
\* ASCII, two-byte sequences, and U+FFFD for a byte that starts no valid
\* sequence.  (Lead bytes of three- and four-byte sequences, 224..244, do
\* not occur in the model's payloads.)
Utf8Decode(bs) ==
    LET lead(i) == bs[i] >= 194 /\ bs[i] <= 223
        cont(i) == bs[i] >= 128 /\ bs[i] <= 191
        \* byte i is the second byte of a two-byte sequence
        second(i) == i > 1 /\ cont(i) /\ lead(i - 1)
        starts == SelectSeq([i \in 1..Len(bs) |-> i], LAMBDA i : ~second(i))
        char(i) ==
            IF bs[i] < 128 THEN bs[i]
            ELSE IF lead(i) /\ i < Len(bs) /\ cont(i + 1)
                 THEN (bs[i] - 192) * 64 + (bs[i + 1] - 128)
                 ELSE 65533
    IN  [k \in 1..Len(starts) |-> char(starts[k])]

---------------------------------------------------------------------------
(* decode_chest_items *)

\* crafter_name = None
NoneStr == <<-1>>
\* zdo without an "items" string
NoneText == <<-1>>

\* lines 222-224: the reserved bytes to skip
Remaining(has_crafter_name, crafter_name) ==
    IF has_crafter_name # 0 /\ crafter_name # NoneStr /\ crafter_name # <<>>
    THEN (35 - (1 + 4 + 4 + 8 + 1)) - (1 + Len(crafter_name))
    ELSE 35 - (1 + 4 + 4 + 8 + 1)

RaisedRead(c, short) ==
    [ok |-> FALSE, item_start |-> c, cur |-> c, short |-> short,
     name_len |-> 0, has_crafter_name |-> 0, crafter_name_len |-> 0,
     remaining |-> 0, item |-> <<>>]

\* lines 205-236: one iteration of the item loop at cursor c.  ok is FALSE
\* when a struct.unpack raised; short tells whether some read asked for
\* more bytes than the buffer had left; the other fields are the locals.
ReadItem(buf, c) ==
    IF ~Avail(buf, c, 1) THEN RaisedRead(c, TRUE)
    ELSE
    LET name_len == read_byte(buf, c)
        name_b   == BufRead(buf, c + 1, name_len)
        p1       == c + 1 + Len(name_b)           \* stack
        p2       == p1 + 4                        \* durability
        p3       == p2 + 4                        \* equipped
        p4       == p3 + 1                        \* quality
        p5       == p4 + 4                        \* variant
        p6       == p5 + 4                        \* crafter_id
        p7       == p6 + 8                        \* has_crafter_name
        p8       == p7 + 1
    IN
    IF ~(/\ Avail(buf, p1, 4) /\ Avail(buf, p2, 4) /\ Avail(buf, p3, 1)
         /\ Avail(buf, p4, 4) /\ Avail(buf, p5, 4) /\ Avail(buf, p6, 8)
         /\ Avail(buf, p7, 1))
    THEN RaisedRead(c, TRUE)
    ELSE
    LET has_crafter_name == read_byte(buf, p7)
    IN
    IF has_crafter_name # 0 /\ ~Avail(buf, p8, 1) THEN RaisedRead(c, TRUE)
    ELSE
    LET crafter_name_len == IF has_crafter_name # 0 THEN read_byte(buf, p8) ELSE 0
        crafter_b    == IF has_crafter_name # 0
                        THEN BufRead(buf, p8 + 1, crafter_name_len) ELSE <<>>
        crafter_name == IF has_crafter_name # 0 THEN Utf8Decode(crafter_b)
                        ELSE NoneStr
        p9           == IF has_crafter_name # 0 THEN p8 + 1 + Len(crafter_b) ELSE p8
        remaining    == Remaining(has_crafter_name, crafter_name)
        skipped      == BufRead(buf, p9, remaining)
    IN  [ok |-> TRUE, item_start |-> c, cur |-> p9 + Len(skipped),
         short |-> \/ Len(name_b) < name_len
                   \/ Len(crafter_b) < crafter_name_len
                   \/ Len(skipped) < remaining,
         name_len |-> name_len, has_crafter_name |-> has_crafter_name,
         crafter_name_len |-> crafter_name_len, remaining |-> remaining,
         item |-> [name |-> Utf8Decode(name_b),
                   stack |-> read_i32(buf, p1),
                   durability |-> read_f32(buf, p2),
                   equipped |-> read_byte(buf, p3) # 0,
                   quality |-> read_i32(buf, p4),
                   variant |-> read_i32(buf, p5),
                   crafter_id |-> read_u64(buf, p6),
                   crafter_name |-> crafter_name]]

\* lines 191-193: no inventory payload
NoPayload(text) == text = NoneText \/ text = <<>>

\* lines 203-238: the item loop as a whole, n iterations left
RECURSIVE ItemLoop(_, _, _, _)
ItemLoop(buf, c, n, acc) ==
    IF n = 0 THEN <<"ok", acc>>
    ELSE LET r == ReadItem(buf, c)
         IN  IF r.ok THEN ItemLoop(buf, r.cur, n - 1, Append(acc, r.item))
             ELSE <<"raised", <<>>>>

\* decode_chest_items as a whole, for callers that run it in one step:
\* <<"ok", items>> or <<"raised", <<>>>>
decode_chest_items(text) ==
    IF NoPayload(text) THEN <<"ok", <<>>>>
    ELSE LET d == b64decode(text)
         IN  IF d[1] # "ok" \/ ~Avail(d[2], 0, 4) \/ ~Avail(d[2], 4, 4)
             THEN <<"raised", <<>>>>
             ELSE ItemLoop(d[2], 8, read_u32(d[2], 4), <<>>)

---------------------------------------------------------------------------
(* aggregate_chests *)

\* a lower() that leaves the text as it is
Lower_Keep(str) == str

\* str.lower() on ASCII text
Lower(str) == [i \in 1..Len(str) |-> IF str[i] >= 65 /\ str[i] <= 90
                                      THEN str[i] + 32 ELSE str[i]]

\* needle in hay
Contains(hay, needle) ==
    \E i \in 1..(Len(hay) - Len(needle) + 1) :
        SubSeq(hay, i, i + Len(needle) - 1) = needle

\* "piece_chest"
ChestSub == <<112, 105, 101, 99, 101, 95, 99, 104, 101, 115, 116>>

\* line 247: (z.get("prefabName") or "").lower()
Prefab(z) == IF z.prefabName = NoneStr THEN <<>> ELSE Lower(z.prefabName)

\* line 250
IsChest(z) == Contains(Prefab(z), ChestSub)

\* lines 254-258: the items of one container added to the totals
RECURSIVE AddItems(_, _)
AddItems(t, items) ==
    IF items = <<>> THEN t
    ELSE LET name  == Head(items).name
             stack == Head(items).stack
         IN  AddItems(DictSet(t, name,
                              (IF name \in DOMAIN t THEN t[name] ELSE 0) + stack),
                      Tail(items))

\* the call returned nothing (it raised, or has not returned yet)
NoTotals == <<"none">>

\* lines 246-260: one object of the loop, as <<"ok", totals>> or
\* <<"raised", totals>>
AggStep(t, z) ==
    IF IsChest(z)
    THEN IF ~NoPayload(z.items)
         THEN LET d == decode_chest_items(z.items)
              IN  IF d[1] = "ok" THEN <<"ok", AddItems(t, d[2])>>
                  ELSE <<"raised", t>>
         ELSE <<"ok", t>>        \* "Chest has no inventory"
    ELSE <<"ok", t>>

\* aggregate_chests as a whole, for callers that run it in one step:
\* <<"totals", dict>> or NoTotals when it raised
RECURSIVE AggLoop(_, _, _)
AggLoop(t, zs, i) ==
    IF i > Len(zs) THEN <<"totals", t>>
    ELSE LET r == AggStep(t, zs[i])
         IN  IF r[1] = "ok" THEN AggLoop(r[2], zs, i + 1) ELSE NoTotals

aggregate_chests(zs) == AggLoop(EmptyDict, zs, 1)

---------------------------------------------------------------------------
(* The inventory layout of spec 4.4, as an encoder, and the payloads of    *)
(* SpecChest                                                               *)

LE32(v) == <<v % 256, (v \div 256) % 256, (v \div 65536) % 256,
             (v \div 16777216) % 256>>

\* str.encode("utf-8") for code points below 2048
RECURSIVE Utf8Encode(_)
Utf8Encode(str) ==
    IF str = <<>> THEN <<>>
    ELSE LET cp == Head(str)
         IN  (IF cp < 128 THEN <<cp>> ELSE <<192 + (cp \div 64), 128 + (cp % 64)>>)
                 \o Utf8Encode(Tail(str))

\* k zero bytes of padding (none when the budget is used up)
Zeros(k) == IF k <= 0 THEN <<>> ELSE [i \in 1..k |-> 0]

EncodeItem(it) ==
    LET nb  == Utf8Encode(it.name)
        has == it.crafter_name # NoneStr
        cb  == IF has THEN Utf8Encode(it.crafter_name) ELSE <<>>
    IN  <<Len(nb)>> \o nb
            \o LE32(it.stack) \o LE32(it.durability)
            \o <<IF it.equipped THEN 1 ELSE 0>>
            \o LE32(it.quality) \o LE32(it.variant)
            \o LE32(it.crafter_id[1]) \o LE32(it.crafter_id[2])
            \o (IF has THEN <<1, Len(cb)>> \o cb ELSE <<0>>)
            \o Zeros(35 - (1 + 4 + 4 + 8 + 1) - (IF has THEN 1 + Len(cb) ELSE 0))

RECURSIVE EncodeItems(_)
EncodeItems(items) ==
    IF items = <<>> THEN <<>>
    ELSE EncodeItem(Head(items)) \o EncodeItems(Tail(items))

HeaderWord == 106

EncodeInventory(items) ==
    LE32(HeaderWord) \o LE32(Len(items)) \o EncodeItems(items)

\* base64.b64encode, to alphabet indices
RECURSIVE b64encode(_)
b64encode(bs) ==
    CASE Len(bs) = 0 -> <<>>
      [] Len(bs) = 1 -> <<bs[1] \div 4, (bs[1] % 4) * 16, B64Pad, B64Pad>>
      [] Len(bs) = 2 -> <<bs[1] \div 4, (bs[1] % 4) * 16 + (bs[2] \div 16),
                          (bs[2] % 16) * 4, B64Pad>>
      [] OTHER -> <<bs[1] \div 4, (bs[1] % 4) * 16 + (bs[2] \div 16),
                    (bs[2] % 16) * 4 + (bs[3] \div 64), bs[3] % 64>>
                      \o b64encode(SubSeq(bs, 4, Len(bs)))

Wood == <<87, 111, 111, 100>>
Ore == <<79, 114, 101>>
Axe == <<65, 120, 101>>

BaseItem ==
    [name |-> Wood, stack |-> 10, durability |-> 1120403456,
     equipped |-> FALSE, quality |-> 1, variant |-> 0,
     crafter_id |-> <<0, 0>>, crafter_name |-> NoneStr]

\* 10 Wood, no crafter name
ItemWood == BaseItem
\* an equipped axe with a crafter id and the crafter name "Bo"
ItemAxe ==
    [BaseItem EXCEPT !.name = Axe, !.stack = 1, !.durability = 1128792064,
                     !.equipped = TRUE, !.quality = 3, !.variant = 2,
                     !.crafter_id = <<77, 1>>, !.crafter_name = <<66, 111>>]
\* 5 Wood with a crafter name that is present and empty
ItemEmptyCrafter == [BaseItem EXCEPT !.stack = 5, !.crafter_name = <<>>]
\* ore with a negative stack, crafted by "é"
ItemAccent == [BaseItem EXCEPT !.name = Ore, !.stack = -1, !.crafter_name = <<233>>]
\* an item without a name whose crafter name fills the budget (16 bytes)
ItemFull == [BaseItem EXCEPT !.name = <<>>, !.crafter_name = [i \in 1..16 |-> 65]]
\* a crafter name one byte longer than the budget allows (17 bytes)
ItemLong == [BaseItem EXCEPT !.name = Ore, !.crafter_name = [i \in 1..17 |-> 65]]

Items == {ItemWood, ItemAxe, ItemEmptyCrafter, ItemAccent, ItemFull, ItemLong}

RECURSIVE ItemLists(_)
ItemLists(n) ==
    IF n = 0 THEN {<<>>}
    ELSE {Append(l, it) : l \in ItemLists(n - 1), it \in Items}

\* "====": text that is not empty and decodes to no bytes
PadOnly == <<B64Pad, B64Pad, B64Pad, B64Pad>>
\* "AA": an unfinished quad
BadText == <<0, 0>>

NoRead == RaisedRead(0, FALSE)

ChestIdle ==
    /\ items_src = <<>>
    /\ cut = -1
    /\ items_b64 = NoneText
    /\ raw = <<>>
    /\ cur = 0
    /\ item_count = 0
    /\ idx = 0
    /\ results = <<>>
    /\ last_read = NoRead
    /\ chpc = "idle"

SkillsIdle ==
    /\ data = <<>>
    /\ skpc = "idle"
    /\ start = 0
    /\ best_start = NoneStart
    /\ best_count = 0
    /\ pos = 0
    /\ skills = EmptyDict

AggIdle ==
    /\ zdos = <<>>
    /\ zi = 0
    /\ totals = EmptyDict
    /\ agg_result = NoTotals
    /\ calls = 0
    /\ failed_before = FALSE
    /\ aggpc = "idle"

\* last_hash = None
NoneHash == <<"none", "">>

LoopIdle ==
    /\ role = "idle"
    /\ world = "A"
    /\ char_file = [exists |-> FALSE, mtime |-> 0, content |-> <<>>]
    /\ last_hash = NoneHash
    /\ last_m_time = 0
    /\ raw_json = ""
    /\ cycle = 0
    /\ lpc = "idle"
    /\ host_fail = "none"
    /\ prev_fail = "none"
    /\ prev_world = ""
    /\ host_skipped = FALSE
    /\ uploaded_raw = {}
    /\ skill_fail = 0
    /\ player_skipped = FALSE
    /\ skills_done = {}

notSkills == <<chestVars, aggVars, loopVars>>
notChest == <<skillVars, aggVars, loopVars>>
notAgg == <<skillVars, chestVars, loopVars>>
notLoop == <<skillVars, chestVars, aggVars>>

---------------------------------------------------------------------------
(* SpecChest: decode_chest_items on one payload, item by item *)

InitChest ==
    /\ SkillsIdle
    /\ AggIdle
    /\ LoopIdle
    /\ \/ \E n \in 0..MaxItems : \E l \in ItemLists(n) : \E k \in 0..MaxCut :
            LET bytes == EncodeInventory(l)
            IN  /\ items_src = l
                /\ cut = Min(k, Len(bytes))
                /\ items_b64 = b64encode(SubSeq(bytes, 1, Len(bytes) - cut))
       \/ /\ items_src = <<>>
          /\ cut = -1
          /\ items_b64 \in {NoneText, <<>>, PadOnly, BadText}
    /\ raw = <<>>
    /\ cur = 0
    /\ item_count = 0
    /\ idx = 0
    /\ results = <<>>
    /\ last_read = NoRead
    /\ chpc = "call"

\* lines 191-201
DecodeBegin ==
    /\ chpc = "call"
    /\ IF NoPayload(items_b64)
       THEN chpc' = "returned" /\ UNCHANGED <<raw, cur, item_count>>
       ELSE LET d == b64decode(items_b64)
            IN  IF d[1] # "ok" \/ ~Avail(d[2], 0, 4) \/ ~Avail(d[2], 4, 4)
                THEN chpc' = "raised" /\ UNCHANGED <<raw, cur, item_count>>
                ELSE /\ chpc' = "loop"
                     /\ raw' = d[2]
                     /\ cur' = 8
                     /\ item_count' = read_u32(d[2], 4)
    /\ idx' = 0
    /\ results' = <<>>
    /\ UNCHANGED <<items_src, cut, items_b64, last_read>>
    /\ UNCHANGED notChest

\* lines 203-236: one iteration of the item loop
DecodeItem ==
    /\ chpc = "loop"
    /\ idx < item_count
    /\ \E r \in {ReadItem(raw, cur)} :
           /\ last_read' = r
           /\ IF r.ok
              THEN /\ cur' = r.cur
                   /\ results' = Append(results, r.item)
                   /\ idx' = idx + 1
                   /\ UNCHANGED chpc
              ELSE /\ chpc' = "raised"
                   /\ UNCHANGED <<cur, results, idx>>
    /\ UNCHANGED <<items_src, cut, items_b64, raw, item_count>>
    /\ UNCHANGED notChest

\* line 238
DecodeItemsReturn ==
    /\ chpc = "loop"
    /\ idx = item_count
    /\ chpc' = "returned"
    /\ UNCHANGED <<items_src, cut, items_b64, raw, cur, item_count, idx, results,
                   last_read>>
    /\ UNCHANGED notChest

NextChest ==
    \/ DecodeBegin
    \/ DecodeItem
    \/ DecodeItemsReturn

SpecChest == InitChest /\ [][NextChest]_vars

---------------------------------------------------------------------------
(* The world objects of SpecAgg.  Beside prefabName and items, each object *)
(* carries what the model knows of it: whether it is a container, the      *)
(* items its payload was encoded from, and whether the payload is broken.  *)

Str_piece_chest == ChestSub
\* "Piece_Chest_Wood"
Str_Piece_Chest_Wood ==
    <<80, 105, 101, 99, 101, 95, 67, 104, 101, 115, 116, 95, 87, 111, 111, 100>>
\* "Rock"
Str_Rock == <<82, 111, 99, 107>>
\* "piece_ches"
Str_piece_ches == SubSeq(ChestSub, 1, 10)

Payload(items) == b64encode(EncodeInventory(items))

\* a payload cut inside the fixed-width fields of its last record
BrokenPayload(items) ==
    LET bytes == EncodeInventory(items)
    IN  b64encode(SubSeq(bytes, 1, Len(bytes) - 20))

Zdo(prefab, text, chest, items, bad) ==
    [prefabName |-> prefab, items |-> text,
     is_chest |-> chest, holds |-> items, broken |-> bad]

ZdoChest == Zdo(Str_piece_chest, Payload(<<ItemWood>>), TRUE, <<ItemWood>>, FALSE)
ZdoChestMixed ==
    Zdo(Str_Piece_Chest_Wood, Payload(<<ItemWood, ItemAxe>>), TRUE,
        <<ItemWood, ItemAxe>>, FALSE)
ZdoRock == Zdo(Str_Rock, Payload(<<ItemWood>>), FALSE, <<ItemWood>>, FALSE)
ZdoChestNoItems == Zdo(Str_piece_chest, NoneText, TRUE, <<>>, FALSE)
ZdoChestEmptyText == Zdo(Str_piece_chest, <<>>, TRUE, <<>>, FALSE)
ZdoChestBroken == Zdo(Str_piece_chest, BrokenPayload(<<ItemAxe>>), TRUE, <<>>, TRUE)
ZdoOtherBroken == Zdo(Str_piece_ches, BrokenPayload(<<ItemAxe>>), FALSE, <<>>, TRUE)
ZdoNoPrefab == Zdo(NoneStr, Payload(<<ItemAxe>>), FALSE, <<ItemAxe>>, FALSE)

ZdoKinds ==
    {ZdoChest, ZdoChestMixed, ZdoRock, ZdoChestNoItems, ZdoChestEmptyText,
     ZdoChestBroken, ZdoOtherBroken, ZdoNoPrefab}

RECURSIVE ZdoLists(_)
ZdoLists(n) ==
    IF n = 0 THEN {<<>>}
    ELSE {Append(l, z) : l \in ZdoLists(n - 1), z \in ZdoKinds}

Worlds == UNION {ZdoLists(n) : n \in 0..MaxZdos}

---------------------------------------------------------------------------
(* SpecAgg: calls of aggregate_chests, object by object *)

InitAgg ==
    /\ SkillsIdle
    /\ ChestIdle
    /\ LoopIdle
    /\ zdos \in Worlds
    /\ zi = 0
    /\ totals = EmptyDict
    /\ agg_result = NoTotals
    /\ calls = 1
    /\ failed_before = FALSE
    /\ aggpc = "call"

\* lines 241-244
AggBegin ==
    /\ aggpc = "call"
    /\ totals' = EmptyDict
    /\ zi' = 1
    /\ aggpc' = "loop"
    /\ UNCHANGED <<zdos, agg_result, calls, failed_before>>
    /\ UNCHANGED notAgg

\* the loop body with the exception of decode_chest_items caught and the
\* container skipped
AggObject_SkipBroken ==
    /\ aggpc = "loop"
    /\ zi <= Len(zdos)
    /\ \E r \in {AggStep(totals, zdos[zi])} :
           totals' = r[2] /\ zi' = zi + 1 /\ UNCHANGED aggpc
    /\ UNCHANGED <<zdos, agg_result, calls, failed_before>>
    /\ UNCHANGED notAgg

\* lines 246-260: one object; an exception of decode_chest_items leaves
\* the call
AggObject ==
    /\ aggpc = "loop"
    /\ zi <= Len(zdos)
    /\ \E r \in {AggStep(totals, zdos[zi])} :
           IF r[1] = "ok"
           THEN totals' = r[2] /\ zi' = zi + 1 /\ UNCHANGED aggpc
           ELSE aggpc' = "raised" /\ UNCHANGED <<totals, zi>>
    /\ UNCHANGED <<zdos, agg_result, calls, failed_before>>
    /\ UNCHANGED notAgg

\* line 262
AggReturn ==
    /\ aggpc = "loop"
    /\ zi > Len(zdos)
    /\ aggpc' = "returned"
    /\ agg_result' = <<"totals", totals>>
    /\ UNCHANGED <<zdos, zi, totals, calls, failed_before>>
    /\ UNCHANGED notAgg

\* the caller calls again, with another snapshot
AggCallAgain ==
    /\ aggpc \in {"returned", "raised"}
    /\ calls < MaxCalls
    /\ zdos' \in Worlds
    /\ calls' = calls + 1
    /\ failed_before' = (failed_before \/ aggpc = "raised")
    /\ agg_result' = NoTotals
    /\ aggpc' = "call"
    /\ UNCHANGED <<zi, totals>>
    /\ UNCHANGED notAgg

NextAgg ==
    \/ AggBegin
    \/ AggObject
    \/ AggReturn
    \/ AggCallAgain

SpecAgg == InitAgg /\ [][NextAgg]_vars

---------------------------------------------------------------------------
(* The character files of SpecSkills *)

\* id 5, level 1000.0, accumulator 0.0
RecA == <<5, 0, 0, 0,  0, 0, 122, 68,  0, 0, 0, 0>>
\* id 1, level 0.0, accumulator 1.4e-45: with a record after it, the bytes
\* from its accumulator on read as a valid record too
RecB == <<1, 0, 0, 0,  0, 0, 0, 0,  1, 0, 0, 0>>
\* id 199 (not in SKILL_MAP), level -0.0
RecC == <<199, 0, 0, 0,  0, 0, 0, 128,  9, 9, 9, 9>>
\* id 200: just outside the id range
BadId == <<200, 0, 0, 0,  0, 0, 0, 0,  0, 0, 0, 0>>
\* id 7, level 1000.00006: just above the level range
BadLvl == <<7, 0, 0, 0,  1, 0, 122, 68,  0, 0, 0, 0>>
\* one byte that shifts the alignment of what follows
Junk1 == <<255>>

Chunks == {RecA, RecB, RecC, BadId, BadLvl, Junk1}

RECURSIVE ChunkFiles(_)
ChunkFiles(n) ==
    IF n = 0 THEN {<<>>}
    ELSE {f \o c : f \in ChunkFiles(n - 1), c \in Chunks}

Pad(k) == [i \in 1..k |-> 255]

\* n records with the ids 1..n, level 0.0: no other offset holds a record
LongRun(n) ==
    [i \in 1..(entry * n) |->
        IF (i - 1) % entry = 0 THEN ((i - 1) \div entry) + 1 ELSE 0]

LongFiles ==
    {Pad(p) \o LongRun(n) \o Pad(s) :
        p \in 0..MaxPad, s \in 0..MaxPad, n \in (RunCap - 1)..(RunCap + MaxOver)}

CharFiles == UNION {ChunkFiles(n) : n \in 0..MaxChunks} \cup LongFiles

---------------------------------------------------------------------------
(* main_loop *)

\* sha256_str: a hash of the text, taken to be free of collisions
sha256_str(text) == <<"sha256", text>>

\* json.loads of the exported texts of the model: <<TRUE, zdoList>>, or
\* <<FALSE, <<>>>> for text that is no JSON
json_loads(text) ==
    CASE text = "A" -> <<TRUE, <<ZdoChest>>>>
      [] text = "B" -> <<TRUE, <<ZdoChest, ZdoChestMixed, ZdoRock>>>>
      [] text = "C" -> <<TRUE, <<ZdoChest, ZdoChestBroken>>>>
      [] OTHER -> <<FALSE, <<>>>>

WorldTexts == {"A", "B", "C", "X"}

\* character files: two records; no record; one record alone
CharGood == RecA \o RecC
CharNoBlock == BadId \o Junk1

CharContents == {CharGood, CharNoBlock}

---------------------------------------------------------------------------
(* SpecLoop: the polling loop *)

NoFile == [exists |-> FALSE, mtime |-> 0, content |-> <<>>]

InitLoop ==
    /\ SkillsIdle
    /\ ChestIdle
    /\ AggIdle
    /\ role \in {"host", "player"}
    /\ world \in WorldTexts
    /\ char_file \in {NoFile} \cup
           {[exists |-> TRUE, mtime |-> 1, content |-> c] : c \in CharContents}
    /\ last_hash = NoneHash
    /\ last_m_time = 0
    /\ raw_json = ""
    /\ cycle = 1
    /\ lpc = "start"
    /\ host_fail = "none"
    /\ prev_fail = "none"
    /\ prev_world = ""
    /\ host_skipped = FALSE
    /\ uploaded_raw = {}
    /\ skill_fail = 0
    /\ player_skipped = FALSE
    /\ skills_done = {}

\* the except clause of line 347: the cycle is over
Caught(stage) ==
    /\ lpc' = "sleep"
    /\ host_fail' = stage

hostHist == <<host_fail, prev_fail, prev_world, host_skipped, uploaded_raw>>
playerHist == <<skill_fail, player_skipped, skills_done>>
loopEnv == <<role, world, char_file, cycle>>

\* lines 307-315: require_java and validate_config raise SystemExit,
\* which the except clause does not catch; export_world_json raises
\* RuntimeError or returns the text
HostExport ==
    /\ lpc = "start"
    /\ role = "host"
    /\ \E outcome \in {"exit", "raise", "ok"} :
           CASE outcome = "exit" ->
                    /\ lpc' = "exited"
                    /\ UNCHANGED <<raw_json, host_fail>>
             [] outcome = "raise" ->
                    /\ Caught("export")
                    /\ UNCHANGED raw_json
             [] outcome = "ok" ->
                    /\ raw_json' = world
                    /\ lpc' = "compare"
                    /\ UNCHANGED host_fail
    /\ UNCHANGED <<last_hash, last_m_time, prev_fail, prev_world, host_skipped,
                   uploaded_raw>>
    /\ UNCHANGED <<loopEnv, playerHist>>
    /\ UNCHANGED notLoop

\* lines 316-317
HostSkip ==
    /\ lpc = "compare"
    /\ sha256_str(raw_json) = last_hash
    /\ host_skipped' = TRUE
    /\ lpc' = "player"
    /\ UNCHANGED <<last_hash, last_m_time, raw_json, host_fail, prev_fail,
                   prev_world, uploaded_raw>>
    /\ UNCHANGED <<loopEnv, playerHist>>
    /\ UNCHANGED notLoop

\* HostUpload with line 326 moved up to line 315: the hash is remembered
\* as soon as the snapshot is exported
HostUpload_EarlyHash ==
    /\ lpc = "compare"
    /\ sha256_str(raw_json) # last_hash
    /\ last_hash' = sha256_str(raw_json)
    /\ \E parsed \in {json_loads(raw_json)} :
           IF ~parsed[1]
           THEN Caught("parse") /\ UNCHANGED uploaded_raw
           ELSE IF aggregate_chests(parsed[2]) = NoTotals
           THEN Caught("aggregate") /\ UNCHANGED uploaded_raw
           ELSE \E sheet_ok \in BOOLEAN, upload_ok \in BOOLEAN :
                    IF ~(sheet_ok /\ upload_ok)
                    THEN Caught("upload") /\ UNCHANGED uploaded_raw
                    ELSE /\ uploaded_raw' = uploaded_raw \cup {raw_json}
                         /\ lpc' = "player"
                         /\ UNCHANGED host_fail
    /\ UNCHANGED <<last_m_time, raw_json, prev_fail, prev_world, host_skipped>>
    /\ UNCHANGED <<loopEnv, playerHist>>
    /\ UNCHANGED notLoop

\* lines 318-326: parse, aggregate, upload, and only then remember the
\* hash; sheet_ok and upload_ok are get_or_create_sheet and upload_totals
\* not raising
HostUpload ==
    /\ lpc = "compare"
    /\ sha256_str(raw_json) # last_hash
    /\ \E parsed \in {json_loads(raw_json)} :
           IF ~parsed[1]
           THEN Caught("parse") /\ UNCHANGED <<last_hash, uploaded_raw>>
           ELSE IF aggregate_chests(parsed[2]) = NoTotals
           THEN Caught("aggregate") /\ UNCHANGED <<last_hash, uploaded_raw>>
           ELSE \E sheet_ok \in BOOLEAN, upload_ok \in BOOLEAN :
                    IF ~(sheet_ok /\ upload_ok)
                    THEN Caught("upload") /\ UNCHANGED <<last_hash, uploaded_raw>>
                    ELSE /\ last_hash' = sha256_str(raw_json)
                         /\ uploaded_raw' = uploaded_raw \cup {raw_json}
                         /\ lpc' = "player"
                         /\ UNCHANGED host_fail
    /\ UNCHANGED <<last_m_time, raw_json, prev_fail, prev_world, host_skipped>>
    /\ UNCHANGED <<loopEnv, playerHist>>
    /\ UNCHANGED notLoop

\* line 309: a role other than host goes straight to the player part
PlayerOnly ==
    /\ lpc = "start"
    /\ role # "host"
    /\ lpc' = "player"
    /\ UNCHANGED <<last_hash, last_m_time, raw_json>>
    /\ UNCHANGED <<loopEnv, hostHist, playerHist>>
    /\ UNCHANGED notLoop

\* lines 329-338, 345-346: the file must exist, the sheet tab is fetched,
\* and a new modification time is remembered before the file is decoded
PlayerCheck ==
    /\ lpc = "player"
    /\ \E sheet_ok \in BOOLEAN :
           IF ~char_file.exists \/ ~sheet_ok
           THEN lpc' = "sleep" /\ UNCHANGED <<last_m_time, player_skipped>>
           ELSE IF char_file.mtime # last_m_time
           THEN /\ last_m_time' = char_file.mtime
                /\ lpc' = "decode"
                /\ UNCHANGED player_skipped
           ELSE /\ player_skipped' = TRUE
                /\ lpc' = "sleep"
                /\ UNCHANGED last_m_time
    /\ UNCHANGED <<last_hash, raw_json, skill_fail, skills_done>>
    /\ UNCHANGED <<loopEnv, hostHist>>
    /\ UNCHANGED notLoop

\* lines 339-344 with upload_skills (273-289): clear_ok is sheet.clear and
\* append_row not raising; an exception of append_rows is caught inside
\* upload_skills and only logged
PlayerDecode ==
    /\ lpc = "decode"
    /\ \E decoded \in {decode_skills(char_file.content)} :
           IF decoded[1] = "raised" \/ decoded[2] = EmptyDict
           THEN /\ skill_fail' = char_file.mtime
                /\ UNCHANGED skills_done
           ELSE \E clear_ok \in BOOLEAN, rows_ok \in BOOLEAN :
                    IF ~clear_ok \/ ~rows_ok
                    THEN /\ skill_fail' = char_file.mtime
                         /\ UNCHANGED skills_done
                    ELSE /\ skill_fail' = 0
                         /\ skills_done' = skills_done \cup {char_file.mtime}
    /\ lpc' = "sleep"
    /\ UNCHANGED <<last_hash, last_m_time, raw_json, player_skipped>>
    /\ UNCHANGED <<loopEnv, hostHist>>
    /\ UNCHANGED notLoop

\* line 350: time.sleep; meanwhile the game may save the world and the
\* character (a new modification time, new content)
Sleep ==
    /\ lpc = "sleep"
    /\ cycle < MaxCycles
    /\ cycle' = cycle + 1
    /\ world' \in WorldTexts
    /\ \/ UNCHANGED char_file
       \/ \E c \in CharContents :
              char_file' = [exists |-> TRUE, mtime |-> cycle + 1, content |-> c]
    /\ prev_fail' = host_fail
    /\ prev_world' = world
    /\ host_fail' = "none"
    /\ host_skipped' = FALSE
    /\ player_skipped' = FALSE
    /\ lpc' = "start"
    /\ UNCHANGED <<role, last_hash, last_m_time, raw_json, uploaded_raw,
                   skill_fail, skills_done>>
    /\ UNCHANGED notLoop

NextLoop ==
    \/ HostExport
    \/ HostSkip
    \/ HostUpload
    \/ PlayerOnly
    \/ PlayerCheck
    \/ PlayerDecode
    \/ Sleep

SpecLoop == InitLoop /\ [][NextLoop]_vars

---------------------------------------------------------------------------
(* SpecSkills: decode_skills on one character file, step by step *)

InitSkills ==
    /\ data \in CharFiles
    /\ skpc = "scan"
    /\ start = 0
    /\ best_start = NoneStart
    /\ best_count = 0
    /\ pos = 0
    /\ skills = EmptyDict
    /\ ChestIdle
    /\ AggIdle
    /\ LoopIdle

\* lines 68-81: one candidate start offset
FindStep ==
    /\ skpc = "scan"
    /\ ScanHasNext(data, start)
    /\ LET best == ScanStep(data, start, <<best_start, best_count>>)
       IN  best_start' = best[1] /\ best_count' = best[2]
    /\ start' = start + 1
    /\ UNCHANGED <<data, skpc, pos, skills>>
    /\ UNCHANGED notSkills

\* line 83, and line 90 in the caller
FindReturn ==
    /\ skpc = "scan"
    /\ ~ScanHasNext(data, start)
    /\ skpc' = "located"
    /\ UNCHANGED <<data, start, best_start, best_count, pos, skills>>
    /\ UNCHANGED notSkills

\* lines 91-96
DecodeCheck ==
    /\ skpc = "located"
    /\ IF best_start = NoneStart \/ best_count = 0
       THEN skpc' = "raised" /\ UNCHANGED pos
       ELSE skpc' = "decode" /\ pos' = best_start
    /\ UNCHANGED <<data, start, best_start, best_count, skills>>
    /\ UNCHANGED notSkills

\* lines 97-103: one accepted record
DecodeRecord ==
    /\ skpc = "decode"
    /\ DecodeHasNext(data, pos)
    /\ skills' = DecodeStep(data, pos, skills)
    /\ pos' = pos + entry
    /\ UNCHANGED <<data, skpc, start, best_start, best_count>>
    /\ UNCHANGED notSkills

\* lines 97, 100, 105: the loop ends, the table is returned
DecodeReturn ==
    /\ skpc = "decode"
    /\ ~DecodeHasNext(data, pos)
    /\ skpc' = "done"
    /\ UNCHANGED <<data, start, best_start, best_count, pos, skills>>
    /\ UNCHANGED notSkills

NextSkills ==
    \/ FindStep
    \/ FindReturn
    \/ DecodeCheck
    \/ DecodeRecord
    \/ DecodeReturn

SpecSkills == InitSkills /\ [][NextSkills]_vars

---------------------------------------------------------------------------
(* Claims about find_skills_block and decode_skills (SpecSkills) *)

\* a whole record lies at offset p and satisfies the SkillRecord predicate
RecordValid(buf, p) ==
    /\ p + 12 <= Len(buf)
    /\ LET sid == ReadI32At(buf, p)
           lvl == ReadF32At(buf, p + 4)
       IN  0 < sid /\ sid < 200 /\ FloatGeZero(lvl) /\ FloatLe1000(lvl)

\* the number of consecutive valid records from offset s, capped at 64
RunLen(buf, s) ==
    CHOOSE k \in 0..64 :
        /\ \A j \in 0..(k - 1) : RecordValid(buf, s + 12 * j)
        /\ k = 64 \/ ~RecordValid(buf, s + 12 * k)

\* what the locator is to return over the candidate offsets 0..last
LocateOver(buf, last) ==
    LET runs == [s \in 0..last |-> RunLen(buf, s)]
        hits == {s \in 0..last : runs[s] >= 1}
    IN  IF hits = {} THEN <<NoneStart, 0>>
        ELSE LET top == CHOOSE s \in hits : \A t \in hits : runs[t] <= runs[s]
                 low == CHOOSE s \in hits :
                            /\ runs[s] = runs[top]
                            /\ \A t \in hits : runs[t] = runs[top] => s <= t
             IN  <<low, runs[low]>>

\* C1: find_skills_block considers every start offset from 0 to
\* len(buffer) - 12 inclusive and returns the lowest offset whose run of
\* valid records is maximal, with that run length; it returns (None, 0)
\* only when no offset in that range holds a valid record.
C1_LocateAllOffsets ==
    skpc = "located" =>
        <<best_start, best_count>> = LocateOver(data, Len(data) - 12)

\* the records decode_skills accepted, once it has returned
Walked == (pos - best_start) \div entry

WalkedNames == {SkillName(ReadI32At(data, best_start + entry * j)) : j \in 0..(Walked - 1)}

\* C2 as stated: the decoder accepts exactly the record_count the locator
\* reported, for every run length, and with pairwise distinct names the
\* table has exactly that many entries.
C2_WalkEqualsCount ==
    skpc = "done" =>
        /\ Walked = best_count
        /\ Cardinality(WalkedNames) = Walked
               => Cardinality(DOMAIN skills) = best_count

\* C2 as amended: the decoder accepts at least the reported record_count,
\* and exactly that many whenever the count is below the locator's cap of
\* 64; with pairwise distinct names the table has as many entries as
\* records were accepted.
C2_WalkAtLeastCount ==
    skpc = "done" =>
        /\ best_count >= 1
        /\ Walked >= best_count
        /\ best_count < RunCap => Walked = best_count
        /\ Cardinality(WalkedNames) = Walked
               => Cardinality(DOMAIN skills) = Walked

C2_Witness ==
    /\ skpc = "done"
    /\ best_count >= 2
    /\ best_count < RunCap
    /\ Walked = best_count
    /\ Cardinality(DOMAIN skills) = best_count

---------------------------------------------------------------------------
(* Claims about decode_chest_items (SpecChest) *)

\* the payload is the complete encoding of a list whose crafter names fit
\* the 35-byte budget
WellFormed ==
    /\ cut = 0
    /\ \A i \in 1..Len(items_src) :
           items_src[i].crafter_name = NoneStr
               \/ Len(Utf8Encode(items_src[i].crafter_name)) <= 16

\* C3: whenever the computed skip length `remaining` of an item record is
\* negative, the decode call fails: it reads no negative byte count,
\* consumes nothing of later records and returns no list with that record.
C3_NegativeRemainingFails ==
    last_read.remaining < 0 => chpc = "raised"

\* C4: every read that would run past the end of the buffer, of whatever
\* kind (fixed-width field, name bytes, crafter-name bytes, reserved-byte
\* skip), fails the whole decode call.
C4_ShortReadFails ==
    last_read.short => chpc = "raised"

\* C5: round trip: decoding the encoding of a list of item records returns
\* the same records in the same order.
C5_RoundTrip ==
    (WellFormed /\ chpc \in {"returned", "raised"}) =>
        (chpc = "returned" /\ results = items_src)

\* C8: for every decoded record the number of reserved bytes skipped is
\* 35 - (1 + 4 + 4 + 8 + 1) - (flag nonzero ? 1 + byte length of the
\* crafter name : 0), so the record takes 44 + name_len bytes in all.
C8_FixedSlot ==
    (WellFormed /\ last_read.ok /\ ~last_read.short) =>
        /\ last_read.remaining =
               35 - (1 + 4 + 4 + 8 + 1)
                  - (IF last_read.has_crafter_name # 0
                     THEN 1 + last_read.crafter_name_len ELSE 0)
        /\ cur - last_read.item_start = 44 + last_read.name_len

---------------------------------------------------------------------------
(* Claims about aggregate_chests (SpecAgg) *)

\* the items held by the containers of a snapshot that carry a payload,
\* in order
RECURSIVE HeldItems(_)
HeldItems(zs) ==
    IF zs = <<>> THEN <<>>
    ELSE (IF Head(zs).is_chest THEN Head(zs).holds ELSE <<>>)
             \o HeldItems(Tail(zs))

RECURSIVE SumStacks(_, _)
SumStacks(items, name) ==
    IF items = <<>> THEN 0
    ELSE (IF Head(items).name = name THEN Head(items).stack ELSE 0)
             + SumStacks(Tail(items), name)

ExpectedTotals(zs) ==
    LET held == HeldItems(zs)
    IN  [name \in {held[i].name : i \in 1..Len(held)} |-> SumStacks(held, name)]

\* C6: aggregate_chests returns, for each item name, the sum of the stack
\* counts of the items of that name in the containers (prefab identifier
\* containing "piece_chest", case-insensitively) that carry a payload;
\* other objects and containers without payload contribute nothing, and
\* nothing is carried over from an earlier call.
C6_Totals ==
    aggpc = "returned" => agg_result = <<"totals", ExpectedTotals(zdos)>>

C6_Witness ==
    /\ aggpc = "returned"
    /\ calls > 1
    /\ Len(zdos) >= 2
    /\ \E i \in 1..Len(zdos) : zdos[i].prefabName = Str_Piece_Chest_Wood
    /\ Wood \in DOMAIN agg_result[2]
    /\ agg_result[2][Wood] = 20

BrokenChest(z) == z.is_chest /\ z.broken

\* C7: if the payload of any container fails to decode, the whole call
\* fails and returns no totals; no mapping is ever returned for a snapshot
\* with a container whose payload failed to decode, and a call after a
\* failed one returns the totals of its own snapshot only.
C7_BatchAbort ==
    /\ aggpc = "raised" =>
           /\ agg_result = NoTotals
           /\ \E i \in 1..Len(zdos) : BrokenChest(zdos[i])
    /\ aggpc = "returned" =>
           /\ \A i \in 1..Len(zdos) : ~BrokenChest(zdos[i])
           /\ failed_before => agg_result = <<"totals", ExpectedTotals(zdos)>>

C7_Witness ==
    /\ aggpc = "raised"
    /\ totals # EmptyDict
    /\ zi > 1
    /\ BrokenChest(zdos[zi])

---------------------------------------------------------------------------
(* Claims about main_loop (SpecLoop) *)

\* C9: a failed skill decode or skill upload is retried on the next cycle
\* while the character file is unchanged: a cycle never skips the file
\* ("no new save") when its modification time is the one of a failed
\* attempt, and the remembered modification time is always one for which
\* decode and upload completed.
C9_RetryFailedSkills ==
    /\ player_skipped => char_file.mtime # skill_fail
    /\ lpc = "sleep" => last_m_time \in ({0} \cup skills_done)

FailedStages == {"parse", "aggregate", "upload"}

HashOfUploaded == last_hash \in {sha256_str(r) : r \in uploaded_raw}

SkipOnlyUploaded == host_skipped => raw_json \in uploaded_raw

\* C10 as stated: last_hash is the hash of a snapshot whose totals were
\* uploaded, a cycle skips only such a snapshot, and after a cycle in which
\* export, parsing, aggregation or upload failed the next cycle, on the
\* same world, does not skip the upload.
C10_RetryAfterAnyFailure ==
    /\ last_hash # NoneHash => HashOfUploaded
    /\ SkipOnlyUploaded
    /\ (prev_fail \in FailedStages \cup {"export"} /\ world = prev_world)
           => ~host_skipped

\* C10 amended: last_hash is the hash of a snapshot whose totals were
\* uploaded, a cycle skips only such a snapshot, and after a cycle in which
\* parsing, aggregation or upload failed the next cycle, on the same
\* world, does not skip the upload (after a failed export it may, when the
\* snapshot was uploaded before).
C10_RetryAfterFailedUpload ==
    /\ last_hash # NoneHash => HashOfUploaded
    /\ SkipOnlyUploaded
    /\ (prev_fail \in FailedStages /\ world = prev_world) => ~host_skipped

\* the upload of a snapshot failed, and the next cycle uploaded the same
\* snapshot and remembered its hash
C10_Witness ==
    /\ prev_fail = "upload"
    /\ world = prev_world
    /\ lpc = "player"
    /\ ~host_skipped
    /\ raw_json = world
    /\ raw_json \in uploaded_raw
    /\ last_hash = sha256_str(raw_json)

=============================================================================
